---- MODULE Spec2Model ----
(***************************************************************************)
(* Cart state management of the storefront: the reducer of                 *)
(* frontend/src/context/CartContext.js, the operations the CartProvider    *)
(* exposes (addToCart, updateQuantity, removeFromCart, clearCart), the     *)
(* derived totals, the product detail page's add handler and the cart      *)
(* page's controls (Spec); the cart's persistence in localStorage and the  *)
(* session (StoreSpec, RestoreSpec); the cart merge (MergeSpec); the       *)
(* product catalog's filtering and sorting (CatalogSpec), the product      *)
(* service's paging (PageSpec) and the product loads (LoadSpec).           *)
(*                                                                         *)
(* Prices are whole numbers of currency units.  A missing / empty string   *)
(* field of a JavaScript object (cartId, selectedSize, selectedColor) is   *)
(* the empty string, a missing stock is 0: both are falsy in the code.     *)
(***************************************************************************)
EXTENDS Integers, Sequences, FiniteSets, TLC

VARIABLES
    state,          \* CartProvider: the reducer state {items, loading, error}
    lastOp,         \* the last call and its outcome
    localStorage,   \* the browser's localStorage: cart, authToken, userData
    mount,          \* CartProvider mount: effect position and queued SET_CART
    pendingSave,    \* the save effect of the last render has not run yet
    lastWrite,      \* outcome of the last storage.saveCart
    crashed,        \* an exception escaped an effect and took the tree down
    appState,       \* AppProvider: {user, isAuthenticated}
    remoteCart,     \* the cart the remote store holds for the user
    productState,   \* ProductProvider: {products, loading, searchQuery,
                    \* filters, pagination}
    visible,        \* the list getFilteredProducts() returned last
    service         \* ProductService: the products it serves, the
                    \* loadProducts calls in flight, the last call and response

cartVars == <<state, lastOp>>
storeVars == <<localStorage, mount, pendingSave, lastWrite, crashed, appState, remoteCart>>
catalogVars == <<productState, visible, service>>
vars == <<state, lastOp, localStorage, mount, pendingSave, lastWrite, crashed,
          appState, remoteCart, productState, visible, service>>

(* ------------------------------ bounds --------------------------------- *)

\* Largest quantity a call passes and a line may reach in the model.
MaxQty == 2

ProductIds == {1, 2}

\* Prices the catalog has shown for a product (a reload may reprice it).
PricesOf(id) == IF id = 1 THEN {10, 25} ELSE {25}

\* product.sizes: product 1 has none, its selectedSize stays ''.
SizesOf(id) == IF id = 2 THEN {"Small", "Medium"} ELSE {""}

\* product.colors, the first of each list
ColorsOf(id) == {"Black"}

\* Quantities callers pass to addToCart / updateQuantity.
Quantities == (0 - 1)..MaxQty

\* Quantities a line is allowed to reach before the model stops adding.
QtyRange == (0 - 1)..MaxQty

\* Stock of a catalog product; 0 stands for a product without stock field.
StockOf(id) == IF id = 1 THEN 1 ELSE 0

(* ------------------------- keys and products --------------------------- *)

\* A key passed to updateQuantity / removeFromCart: a number (product id)
\* or a string (cartId).  The reducer compares it with === against item.id.
NumKey(n) == [kind |-> "num", num |-> n, str |-> ""]
StrKey(s) == [kind |-> "str", num |-> 0, str |-> s]

\* item.id === key, with item.id a number
StrictEqId(itemId, key) == key.kind = "num" /\ key.num = itemId

\* `${product.id}-${selectedSize}-${selectedColor}`
MakeCartId(id, size, color) == ToString(id) \o "-" \o size \o "-" \o color

\* A product record as the catalog delivers it.
CatalogProduct(id, price) ==
    [id |-> id, price |-> price, stock |-> StockOf(id),
     selectedSize |-> "", selectedColor |-> "", cartId |-> ""]

\* The object ProductDetail.handleAddToCart builds from the product.
DetailCartItem(product, size, color) ==
    [product EXCEPT !.selectedSize = size, !.selectedColor = color,
                    !.cartId = MakeCartId(product.id, size, color)]

CatalogProducts ==
    UNION {{CatalogProduct(id, pr) : pr \in PricesOf(id)} : id \in ProductIds}

\* The selections the detail page offers for a product.
DetailItems(p) ==
    {DetailCartItem(p, s, c) : s \in SizesOf(p.id), c \in ColorsOf(p.id)}

\* Objects callers pass to addToCart: plain products and detail-page items.
ProductArgs ==
    CatalogProducts \cup UNION {DetailItems(p) : p \in CatalogProducts}

\* item.cartId || item.id : the key the cart page uses for a line
LineKey(item) == IF item.cartId # "" THEN StrKey(item.cartId) ELSE NumKey(item.id)

KeyArgs ==
    {NumKey(id) : id \in ProductIds} \cup
    {LineKey(it) : it \in ProductArgs}

(* ---------------------------- localStorage ----------------------------- *)

\* A localStorage entry: absent (getItem gives null) or a string, written
\* here as the sequence of its JSON tokens.
Absent == [present |-> FALSE, text |-> <<>>]
Stored(text) == [present |-> TRUE, text |-> text]

\* Numbers that occur in a stored cart.
JsonNumbers == (0 - 9)..30

\* JSON.stringify of one cart line
StringifyItem(it) ==
    <<"{", ToString(it.id), ToString(it.price), ToString(it.stock),
      it.selectedSize, it.selectedColor, it.cartId, ToString(it.quantity), "}">>

RECURSIVE StringifyItems(_)
StringifyItems(items) ==
    IF items = <<>> THEN <<>>
    ELSE StringifyItem(Head(items)) \o StringifyItems(Tail(items))

JSONstringifyFirstOnly(items) ==
    <<"[">> \o (IF items = <<>> THEN <<>> ELSE StringifyItem(Head(items))) \o <<"]">>

\* JSON.stringify(cartItems)
JSONstringify(items) == <<"[">> \o StringifyItems(items) \o <<"]">>

IsNumber(tok) == \E n \in JsonNumbers : ToString(n) = tok
ParseNumber(tok) == CHOOSE n \in JsonNumbers : ToString(n) = tok

\* the nine tokens from position i are one well-formed object
IsItemAt(text, i) ==
    /\ i + 8 <= Len(text)
    /\ text[i] = "{"
    /\ text[i + 8] = "}"
    /\ IsNumber(text[i + 1]) /\ IsNumber(text[i + 2])
    /\ IsNumber(text[i + 3]) /\ IsNumber(text[i + 7])

ParseItemAt(text, i) ==
    [id |-> ParseNumber(text[i + 1]), price |-> ParseNumber(text[i + 2]),
     stock |-> ParseNumber(text[i + 3]), selectedSize |-> text[i + 4],
     selectedColor |-> text[i + 5], cartId |-> text[i + 6],
     quantity |-> ParseNumber(text[i + 7])]

\* A JavaScript value as JSON.parse delivers it: an array of lines, null,
\* a number or the object {}.
JsArray(items) == [kind |-> "array", items |-> items]
JsNull == [kind |-> "null", items |-> <<>>]
JsNumber(n) == [kind |-> "number", num |-> n]
JsObject == [kind |-> "object"]

\* JSON.parse(text): the value, or a SyntaxError
JSONparse(text) ==
    LET n == (Len(text) - 2) \div 9 IN
    IF text = <<"null">>
    THEN [ok |-> TRUE, value |-> JsNull]
    ELSE IF Len(text) = 1 /\ IsNumber(text[1])
    THEN [ok |-> TRUE, value |-> JsNumber(ParseNumber(text[1]))]
    ELSE IF text = <<"{", "}">>
    THEN [ok |-> TRUE, value |-> JsObject]
    ELSE IF /\ Len(text) >= 2
            /\ text[1] = "["
            /\ text[Len(text)] = "]"
            /\ Len(text) = 2 + (9 * n)
            /\ \A k \in 1..n : IsItemAt(text, 2 + (9 * (k - 1)))
    THEN [ok |-> TRUE,
          value |-> JsArray([k \in 1..n |-> ParseItemAt(text, 2 + (9 * (k - 1)))])]
    ELSE [ok |-> FALSE, value |-> JsNull]

\* value is truthy: arrays and objects are, null and the number 0 are not
Truthy(value) ==
    CASE value.kind = "array" -> TRUE
      [] value.kind = "object" -> TRUE
      [] value.kind = "number" -> value.num # 0
      [] OTHER -> FALSE

\* The value as a reducer payload: a list is the sequence of its lines, any
\* other value is kept as it is.
Payload(value) == IF value.kind = "array" THEN value.items ELSE value

getCartNoCatch(ls) ==
    IF ls.cart.present /\ ls.cart.text # <<>>
    THEN [threw |-> ~JSONparse(ls.cart.text).ok, value |-> JSONparse(ls.cart.text).value]
    ELSE [threw |-> FALSE, value |-> JsArray(<<>>)]

\* storage.getCart(): cart ? JSON.parse(cart) : [], and [] when that throws
getCart(ls) ==
    IF ls.cart.present /\ ls.cart.text # <<>>
    THEN IF JSONparse(ls.cart.text).ok
         THEN [threw |-> FALSE, value |-> JSONparse(ls.cart.text).value]
         ELSE [threw |-> FALSE, value |-> JsArray(<<>>)]
    ELSE [threw |-> FALSE, value |-> JsArray(<<>>)]

saveCartNoCatch(ls, cartItems, writable) ==
    IF writable
    THEN [ls |-> [ls EXCEPT !.cart = Stored(JSONstringify(cartItems))],
          threw |-> FALSE, returned |-> TRUE]
    ELSE [ls |-> ls, threw |-> TRUE, returned |-> FALSE]

\* storage.saveCart(cartItems); setItem throws when the quota is exceeded
saveCart(ls, cartItems, writable) ==
    IF writable
    THEN [ls |-> [ls EXCEPT !.cart = Stored(JSONstringify(cartItems))],
          threw |-> FALSE, returned |-> TRUE]
    ELSE [ls |-> ls, threw |-> FALSE, returned |-> FALSE]

emptyStorage == [cart |-> Absent, authToken |-> Absent, userData |-> Absent]

ReduceSetCartKeepItems(s, payload) == [s EXCEPT !.loading = FALSE]

\* case 'SET_CART'
ReduceSetCart(s, payload) == [s EXCEPT !.items = payload, !.loading = FALSE]

(* ------------------------------ reducer -------------------------------- *)

\* { ...product, quantity }
WithQuantity(product, quantity) ==
    [id |-> product.id, price |-> product.price, stock |-> product.stock,
     selectedSize |-> product.selectedSize,
     selectedColor |-> product.selectedColor,
     cartId |-> product.cartId, quantity |-> quantity]

HasItem(items, id) == \E i \in DOMAIN items : items[i].id = id

ReduceAddItemAlwaysAppend(s, payload) ==
    [s EXCEPT !.items = Append(s.items, payload)]

ReduceAddItemOverwrite(s, payload) ==
    IF HasItem(s.items, payload.id)
    THEN [s EXCEPT !.items =
            [i \in DOMAIN s.items |->
                IF s.items[i].id = payload.id
                THEN [payload EXCEPT !.quantity = s.items[i].quantity + payload.quantity]
                ELSE s.items[i]]]
    ELSE [s EXCEPT !.items = Append(s.items, payload)]

\* case 'ADD_ITEM'
ReduceAddItem(s, payload) ==
    IF HasItem(s.items, payload.id)
    THEN [s EXCEPT !.items =
            [i \in DOMAIN s.items |->
                IF s.items[i].id = payload.id
                THEN [s.items[i] EXCEPT !.quantity = @ + payload.quantity]
                ELSE s.items[i]]]
    ELSE [s EXCEPT !.items = Append(s.items, payload)]

\* case 'UPDATE_ITEM', payload = {id: key, quantity}
ReduceUpdateItem(s, payload) ==
    [s EXCEPT !.items =
        [i \in DOMAIN s.items |->
            IF StrictEqId(s.items[i].id, payload.id)
            THEN [s.items[i] EXCEPT !.quantity = payload.quantity]
            ELSE s.items[i]]]

\* items.splice(items.findIndex(...), 1): drops the last line on a miss
ReduceRemoveItemSplice(s, key) ==
    IF \E i \in DOMAIN s.items : StrictEqId(s.items[i].id, key)
    THEN [s EXCEPT !.items = SelectSeq(s.items, LAMBDA it : ~StrictEqId(it.id, key))]
    ELSE [s EXCEPT !.items = SubSeq(s.items, 1, Len(s.items) - 1)]

\* case 'REMOVE_ITEM', payload = key
ReduceRemoveItem(s, key) ==
    [s EXCEPT !.items = SelectSeq(s.items, LAMBDA it : ~StrictEqId(it.id, key))]

\* case 'CLEAR_CART'
ReduceClearCart(s) == [s EXCEPT !.items = <<>>]

\* case 'SET_LOADING'
ReduceSetLoading(s, payload) == [s EXCEPT !.loading = payload]

cartReducer(s, action) ==
    CASE action.type = "SET_CART"    -> ReduceSetCart(s, action.payload)
      [] action.type = "ADD_ITEM"    -> ReduceAddItem(s, action.payload)
      [] action.type = "UPDATE_ITEM" -> ReduceUpdateItem(s, action.payload)
      [] action.type = "REMOVE_ITEM" -> ReduceRemoveItem(s, action.payload)
      [] action.type = "CLEAR_CART"  -> ReduceClearCart(s)
      [] action.type = "SET_LOADING" -> ReduceSetLoading(s, action.payload)
      [] OTHER -> s

initialState == [items |-> <<>>, loading |-> FALSE, error |-> "null"]

(* --------------------------- derived totals ---------------------------- *)

RECURSIVE ReduceTotal(_, _, _)
\* items.reduce((total, item) => total + (item.price * item.quantity), 0)
ReduceTotal(items, i, total) ==
    IF i > Len(items) THEN total
    ELSE ReduceTotal(items, i + 1, total + (items[i].price * items[i].quantity))

RECURSIVE ReduceCount(_, _, _)
\* items.reduce((count, item) => count + item.quantity, 0)
ReduceCount(items, i, count) ==
    IF i > Len(items) THEN count
    ELSE ReduceCount(items, i + 1, count + items[i].quantity)

getCartTotalSkipFirst(s) == ReduceTotal(s.items, 2, 0)

getCartTotal(s) == ReduceTotal(s.items, 1, 0)

getCartItemCount(s) == ReduceCount(s.items, 1, 0)

(* ---------------------------- operations ------------------------------- *)

\* addToCart(product, quantity): SET_LOADING true, then ADD_ITEM
addToCart(s, product, quantity) ==
    cartReducer(
        cartReducer(s, [type |-> "SET_LOADING", payload |-> TRUE]),
        [type |-> "ADD_ITEM", payload |-> WithQuantity(product, quantity)])

\* removeFromCart(productId)
removeFromCart(s, key) ==
    cartReducer(s, [type |-> "REMOVE_ITEM", payload |-> key])

updateQuantityNegativeOnly(s, key, quantity) ==
    IF quantity < 0
    THEN removeFromCart(s, key)
    ELSE cartReducer(s, [type |-> "UPDATE_ITEM",
                         payload |-> [id |-> key, quantity |-> quantity]])

\* updateQuantity(productId, quantity)
updateQuantity(s, key, quantity) ==
    IF quantity <= 0
    THEN removeFromCart(s, key)
    ELSE cartReducer(s, [type |-> "UPDATE_ITEM",
                         payload |-> [id |-> key, quantity |-> quantity]])

\* clearCart()
clearCart(s) == cartReducer(s, [type |-> "CLEAR_CART"])

\* Every line of the cart stays within the modelled quantity range.
InRange(s) == \A i \in DOMAIN s.items : s.items[i].quantity \in QtyRange

NoProduct == CatalogProduct(0, 0)

\* items.find(item => item.id === key) finds a line
Finds(s, key) == \E i \in DOMAIN s.items : StrictEqId(s.items[i].id, key)

\* What the last call was, whether the reducer's comparison found a line for
\* its key in the cart it was applied to, what its promise resolved to, and
\* the quantity the user had selected on the page that made the call.
Op(name, product, key, q, found, via) ==
    [op |-> name, product |-> product, key |-> key, q |-> q, found |-> found,
     via |-> via, result |-> "resolved", selected |-> q]

\* CartProvider mounted, no SET_CART queued
Mounted == [pc |-> "run", queued |-> FALSE, queuedItems |-> <<>>,
            queuedKind |-> "none", synced |-> FALSE, before |-> <<>>]

\* AppProvider initialState: user null, isAuthenticated false
anonymous == [user |-> "null", isAuthenticated |-> FALSE]

\* ProductProvider initialState (products, loading, searchQuery, filters,
\* pagination); a string that is searched or sorted is the sequence of its
\* characters.
initialProductState ==
    [products |-> <<>>, loading |-> FALSE, searchQuery |-> <<>>,
     filters |-> [category |-> "", minPrice |-> "", maxPrice |-> "",
                  sortBy |-> "name", sortOrder |-> "asc"],
     pagination |-> [currentPage |-> 1, totalPages |-> 1, totalItems |-> 0,
                     itemsPerPage |-> 12]]

\* No call made to the product service, no response returned.
NoCall == [call |-> "none", page |-> 0, limit |-> 0, search |-> <<>>]
NoResponse == [products |-> <<>>, totalItems |-> 0, totalPages |-> 0, currentPage |-> 0]

\* The product service before the catalog is used.
ServiceAtRest ==
    [products |-> <<>>, requests |-> {}, issued |-> 0, latest |-> NoCall,
     response |-> NoResponse]

\* The session and the persistence layer at rest, outside the cart itself.
StoreAtRest ==
    /\ localStorage = emptyStorage
    /\ mount = Mounted
    /\ pendingSave = FALSE
    /\ lastWrite = [status |-> "none", failures |-> 0]
    /\ crashed = FALSE
    /\ appState = anonymous
    /\ remoteCart = <<>>

CatalogAtRest ==
    /\ productState = initialProductState
    /\ visible = <<>>
    /\ service = ServiceAtRest

\* The reducer and the provider's operations on their own: the cart starts
\* empty and the persistence layer, the session and the catalog stay at rest.
Init ==
    /\ state = initialState
    /\ lastOp = Op("none", NoProduct, NumKey(0), 0, FALSE, "none")
    /\ StoreAtRest
    /\ CatalogAtRest

\* A caller of the context invokes addToCart(product, quantity).
AddToCart ==
    \E product \in ProductArgs, q \in Quantities :
        /\ InRange(addToCart(state, product, q))
        /\ state' = addToCart(state, product, q)
        /\ lastOp' = Op("addToCart", product, NumKey(product.id), q,
                        Finds(state, NumKey(product.id)), "context")
        /\ UNCHANGED <<storeVars, catalogVars>>

\* ProductDetail.handleQuantityChange keeps the selected quantity within
\* 1 .. (product.stock || 99).
SelectableQuantities(product) ==
    {q \in 1..MaxQty : q <= (IF product.stock # 0 THEN product.stock ELSE 99)}

\* ProductDetail.handleAddToCart: cartItem carries the selected quantity, but
\* the call is addToCart(cartItem), whose quantity parameter defaults to 1
\* and overwrites cartItem.quantity in { ...product, quantity }.
HandleAddToCart ==
    \E product \in CatalogProducts : \E cartItem \in DetailItems(product) :
        \E quantity \in SelectableQuantities(product) :
            /\ InRange(addToCart(state, cartItem, 1))
            /\ state' = addToCart(state, cartItem, 1)
            /\ lastOp' = [Op("addToCart", cartItem, NumKey(product.id), 1,
                             Finds(state, NumKey(product.id)), "ProductDetail")
                          EXCEPT !.selected = quantity]
            /\ UNCHANGED <<storeVars, catalogVars>>

UpdateQuantity ==
    \E key \in KeyArgs, q \in Quantities :
        /\ state' = updateQuantity(state, key, q)
        /\ lastOp' = Op("updateQuantity", NoProduct, key, q, Finds(state, key), "context")
        /\ UNCHANGED <<storeVars, catalogVars>>

RemoveFromCart ==
    \E key \in KeyArgs :
        /\ state' = removeFromCart(state, key)
        /\ lastOp' = Op("removeFromCart", NoProduct, key, 0, Finds(state, key), "context")
        /\ UNCHANGED <<storeVars, catalogVars>>

ClearCart ==
    /\ state' = clearCart(state)
    /\ lastOp' = Op("clearCart", NoProduct, NumKey(0), 0, FALSE, "context")
    /\ UNCHANGED <<storeVars, catalogVars>>

\* Cart.handleQuantityChange(item, newQuantity)
handleQuantityChange(s, item, newQuantity) ==
    IF newQuantity <= 0
    THEN removeFromCart(s, LineKey(item))
    ELSE updateQuantity(s, LineKey(item), newQuantity)

\* The cart page's - and + buttons of a line it shows: - is disabled at
\* quantity <= 1, + when the line has a stock and has reached it.
CartQuantityChange ==
    \E i \in DOMAIN state.items : \E change \in {0 - 1, 1} :
        LET item == state.items[i]
            newQuantity == item.quantity + change
        IN  /\ change = 0 - 1 => ~(item.quantity <= 1)
            /\ change = 1 => ~(item.stock # 0 /\ item.quantity >= item.stock)
            /\ newQuantity \in QtyRange
            /\ state' = handleQuantityChange(state, item, newQuantity)
            /\ lastOp' = Op(IF newQuantity <= 0 THEN "removeFromCart" ELSE "updateQuantity",
                            NoProduct, LineKey(item), newQuantity,
                            Finds(state, LineKey(item)), "Cart")
            /\ UNCHANGED <<storeVars, catalogVars>>

\* The cart page's remove button of a line it shows.
CartRemove ==
    \E i \in DOMAIN state.items :
        LET item == state.items[i] IN
        /\ state' = removeFromCart(state, LineKey(item))
        /\ lastOp' = Op("removeFromCart", NoProduct, LineKey(item), 0,
                        Finds(state, LineKey(item)), "Cart")
        /\ UNCHANGED <<storeVars, catalogVars>>

Next ==
    \/ AddToCart
    \/ HandleAddToCart
    \/ UpdateQuantity
    \/ RemoveFromCart
    \/ ClearCart
    \/ CartQuantityChange
    \/ CartRemove

Spec == Init /\ [][Next]_vars

(* ------------------- persistence and session (StoreSpec) --------------- *)

\* Largest number of writes to localStorage that fail in one run.
MaxWriteFailures == 2

\* What the cart key may hold when the application starts: nothing, an empty
\* string, the JSON text null, a truncated text, or a cart saved earlier.
SavedCart ==
    <<WithQuantity(CatalogProduct(1, 10), 1),
      WithQuantity(DetailCartItem(CatalogProduct(2, 25), "Small", "Black"), 2)>>

InitialCartEntries ==
    {Absent, Stored(<<>>), Stored(<<"null">>), Stored(<<"[", "{">>),
     Stored(JSONstringify(SavedCart))}

\* Carts the remote store may hold for the user who logs in.
RemoteCarts == {<<>>, <<WithQuantity(CatalogProduct(1, 10), 1)>>}

\* Arguments of the cart operations in the runs with persistence.
StoreProducts ==
    {CatalogProduct(1, 10)} \cup DetailItems(CatalogProduct(2, 25))
StoreQuantities == 1..MaxQty
StoreKeys == {NumKey(id) : id \in ProductIds}

\* Login.handleSubmit's userData, serialized as its id
StringifyUser(user) == <<"{", user, "}">>
ParseUser(text) ==
    IF Len(text) = 3 /\ text[1] = "{" /\ text[3] = "}"
    THEN [ok |-> TRUE, user |-> text[2]]
    ELSE [ok |-> FALSE, user |-> "null"]

\* case 'SET_USER'
ReduceSetUser(a, payload) == [user |-> payload, isAuthenticated |-> payload # "null"]

\* case 'LOGOUT'
ReduceLogout(a) == [user |-> "null", isAuthenticated |-> FALSE]

\* login(userData, token): the writes to localStorage
loginStorage(ls, userData, token) ==
    [ls EXCEPT !.authToken = IF token # "" THEN Stored(<<token>>) ELSE @,
               !.userData = Stored(StringifyUser(userData))]

logoutStorageClearAll(ls) == emptyStorage

\* logout(): removeItem('authToken'), removeItem('userData')
logoutStorage(ls) == [ls EXCEPT !.authToken = Absent, !.userData = Absent]

\* AppProvider's restore effect: the session after a (re)load
RestoredSession(ls) ==
    IF /\ ls.authToken.present /\ ls.authToken.text # <<>>
       /\ ls.userData.present /\ ls.userData.text # <<>>
       /\ ParseUser(ls.userData.text).ok
    THEN ReduceSetUser(anonymous, ParseUser(ls.userData.text).user)
    ELSE anonymous

\* ... and what it leaves in localStorage: unparsable user data is removed
RestoredStorage(ls) ==
    IF /\ ls.authToken.present /\ ls.authToken.text # <<>>
       /\ ls.userData.present /\ ls.userData.text # <<>>
       /\ ~ParseUser(ls.userData.text).ok
    THEN [ls EXCEPT !.authToken = Absent, !.userData = Absent]
    ELSE ls

Mounting(synced, before) ==
    [pc |-> "mountLoad", queued |-> FALSE, queuedItems |-> <<>>,
     queuedKind |-> "none", synced |-> synced, before |-> before]

StoreOp(name) == Op(name, NoProduct, NumKey(0), 0, FALSE, "store")

\* Outcome of a saveCart; the failures are counted to stop after
\* MaxWriteFailures of them.
WriteOutcome(returned, failures) ==
    [status |-> IF returned THEN "ok" ELSE "failed",
     failures |-> IF returned THEN failures ELSE failures + 1]

NoWrite == [status |-> "none", failures |-> 0]

Writable == IF lastWrite.failures < MaxWriteFailures THEN BOOLEAN ELSE {TRUE}

\* The application starts: providers constructed, mount effects still to run.
StoreInit ==
    /\ state = initialState
    /\ lastOp = StoreOp("none")
    /\ localStorage \in {[emptyStorage EXCEPT !.cart = c] : c \in InitialCartEntries}
    /\ mount = Mounting(FALSE, <<>>)
    /\ pendingSave = FALSE
    /\ lastWrite = NoWrite
    /\ crashed = FALSE
    /\ appState = anonymous
    /\ remoteCart \in RemoteCarts
    /\ CatalogAtRest

\* Mount, first effect: savedCart = storage.getCart(); a truthy savedCart is
\* dispatched as SET_CART, which is applied at the next render.
MountLoad ==
    /\ mount.pc = "mountLoad"
    /\ ~crashed
    /\ LET r == getCart(localStorage) IN
        /\ crashed' = r.threw
        /\ mount' = [mount EXCEPT
                        !.pc = "mountSave",
                        !.queued = ~r.threw /\ Truthy(r.value),
                        !.queuedItems = IF ~r.threw /\ Truthy(r.value)
                                        THEN Payload(r.value) ELSE <<>>,
                        !.queuedKind = IF ~r.threw /\ Truthy(r.value)
                                       THEN r.value.kind ELSE "none"]
    /\ UNCHANGED <<state, lastOp, localStorage, pendingSave, lastWrite,
                   appState, remoteCart, catalogVars>>

\* Mount, second effect: storage.saveCart(state.items) with the items of the
\* first render; then the queued SET_CART is applied and rendered.  With
\* items that are not an array the render throws: Header calls
\* getCartItemCount(), which is state.items.reduce(...).
MountSave ==
    /\ mount.pc = "mountSave"
    /\ ~crashed
    /\ \E writable \in Writable :
        LET sv == saveCart(localStorage, state.items, writable) IN
        /\ localStorage' = sv.ls
        /\ lastWrite' = WriteOutcome(sv.returned, lastWrite.failures)
        /\ crashed' = (sv.threw \/ (mount.queued /\ mount.queuedKind # "array"))
    /\ state' = IF mount.queued
                THEN cartReducer(state, [type |-> "SET_CART", payload |-> mount.queuedItems])
                ELSE state
    /\ pendingSave' = mount.queued
    /\ mount' = Mounted
    /\ lastOp' = StoreOp("mount")
    /\ UNCHANGED <<appState, remoteCart, catalogVars>>

\* The save effect of a render whose state.items changed.
SaveEffect ==
    /\ mount.pc = "run"
    /\ pendingSave
    /\ ~crashed
    /\ \E writable \in Writable :
        LET sv == saveCart(localStorage, state.items, writable) IN
        /\ localStorage' = sv.ls
        /\ lastWrite' = WriteOutcome(sv.returned, lastWrite.failures)
        /\ crashed' = sv.threw
    /\ pendingSave' = FALSE
    /\ UNCHANGED <<state, lastOp, mount, appState, remoteCart, catalogVars>>

\* A cart operation is handled once the effects of the last render have run.
Idle == mount.pc = "run" /\ ~pendingSave /\ ~crashed

CartStep(newState, name) ==
    /\ Idle
    /\ InRange(newState)
    /\ state' = newState
    /\ lastOp' = StoreOp(name)
    /\ pendingSave' = TRUE
    /\ UNCHANGED <<localStorage, mount, lastWrite, crashed, appState, remoteCart,
                   catalogVars>>

StoreAddToCart ==
    \E product \in StoreProducts, q \in StoreQuantities :
        CartStep(addToCart(state, product, q), "addToCart")

StoreUpdateQuantity ==
    \E key \in StoreKeys, q \in StoreQuantities :
        CartStep(updateQuantity(state, key, q), "updateQuantity")

StoreRemoveFromCart ==
    \E key \in StoreKeys : CartStep(removeFromCart(state, key), "removeFromCart")

StoreClearCart == CartStep(clearCart(state), "clearCart")

\* Login.handleSubmit -> login(userData, token)
Login ==
    /\ mount.pc = "run"
    /\ ~crashed
    /\ ~appState.isAuthenticated
    /\ \E token \in {"", "mock-jwt-token"} :
        localStorage' = loginStorage(localStorage, "user1", token)
    /\ appState' = ReduceSetUser(appState, "user1")
    /\ lastOp' = StoreOp("login")
    /\ UNCHANGED <<state, mount, pendingSave, lastWrite, crashed, remoteCart,
                   catalogVars>>

\* logout()
Logout ==
    /\ mount.pc = "run"
    /\ ~crashed
    /\ appState.isAuthenticated
    /\ localStorage' = logoutStorage(localStorage)
    /\ appState' = ReduceLogout(appState)
    /\ lastOp' = StoreOp("logout")
    /\ UNCHANGED <<state, mount, pendingSave, lastWrite, crashed, remoteCart,
                   catalogVars>>

\* The page is reloaded: the providers are constructed again, the session is
\* restored from localStorage, the cart's mount effects are still to run.
Reload ==
    /\ mount.pc = "run"
    /\ state' = initialState
    /\ appState' = RestoredSession(localStorage)
    /\ localStorage' = RestoredStorage(localStorage)
    /\ mount' = Mounting(~pendingSave /\ ~crashed /\ lastWrite.status = "ok", state.items)
    /\ pendingSave' = FALSE
    /\ lastWrite' = [lastWrite EXCEPT !.status = "none"]
    /\ crashed' = FALSE
    /\ lastOp' = StoreOp("reload")
    /\ UNCHANGED <<remoteCart, catalogVars>>

StoreNext ==
    \/ MountLoad
    \/ MountSave
    \/ SaveEffect
    \/ StoreAddToCart
    \/ StoreUpdateQuantity
    \/ StoreRemoveFromCart
    \/ StoreClearCart
    \/ Login
    \/ Logout
    \/ Reload

StoreSpec == StoreInit /\ [][StoreNext]_vars

(* ------------------- restore at startup (RestoreSpec) ------------------ *)

\* Texts under the cart key that are valid JSON but no list, next to a cart
\* saved earlier.
NonListEntries ==
    {Stored(<<"null">>), Stored(<<"0">>), Stored(<<"5">>), Stored(<<"{", "}">>)}

\* The application starts on a localStorage whose cart key other code, an
\* older version or the user has written.
RestoreInit ==
    /\ state = initialState
    /\ lastOp = StoreOp("none")
    /\ localStorage \in {[emptyStorage EXCEPT !.cart = c] :
                            c \in NonListEntries \cup {Stored(JSONstringify(SavedCart))}}
    /\ mount = Mounting(FALSE, <<>>)
    /\ pendingSave = FALSE
    /\ lastWrite = NoWrite
    /\ crashed = FALSE
    /\ appState = anonymous
    /\ remoteCart = <<>>
    /\ CatalogAtRest

RestoreSpec == RestoreInit /\ [][StoreNext]_vars

(* -------------------------- merge (MergeSpec) -------------------------- *)

\* Largest quantity a merged line reaches in the model.
MaxMergedQty == 3

\* The client has no merge of its own: CartService.mergeCart posts the guest
\* cart to the backend's /cart/merge.  The merge below is the one the design
\* describes: lines are matched by lineId (product and variant selectors).
SameLine(a, b) == LineKey(a) = LineKey(b)

\* quantity clamped to the stock hint when one is known
ClampToStock(line, quantity) ==
    IF line.stock # 0 /\ quantity > line.stock THEN line.stock ELSE quantity

mergeLineOverwrite(items, foreign) ==
    IF \E i \in DOMAIN items : SameLine(items[i], foreign)
    THEN [i \in DOMAIN items |->
            IF SameLine(items[i], foreign)
            THEN [items[i] EXCEPT !.quantity = ClampToStock(items[i], foreign.quantity)]
            ELSE items[i]]
    ELSE Append(items, foreign)

\* one foreign line merged into the local lines
mergeLine(items, foreign) ==
    IF \E i \in DOMAIN items : SameLine(items[i], foreign)
    THEN [i \in DOMAIN items |->
            IF SameLine(items[i], foreign)
            THEN [items[i] EXCEPT
                    !.quantity = ClampToStock(items[i], @ + foreign.quantity)]
            ELSE items[i]]
    ELSE Append(items, foreign)

RECURSIVE mergeFrom(_, _)
\* mergeFrom(otherState): every foreign line in turn
mergeFrom(items, other) ==
    IF other = <<>> THEN items
    ELSE mergeFrom(mergeLine(items, Head(other)), Tail(other))

\* Lines of the carts that are merged: two variants of product 2 (no stock
\* hint) and product 1 (stock hint 1).
MergeLines ==
    {WithQuantity(p, q) :
        p \in DetailItems(CatalogProduct(2, 25)) \cup {CatalogProduct(1, 10)},
        q \in 1..2}

\* Carts of at most two lines with distinct lineIds.
MergeCarts ==
    {<<>>} \cup {<<a>> : a \in MergeLines}
    \cup {c \in MergeLines \X MergeLines : ~SameLine(c[1], c[2])}

MergeInit ==
    /\ state \in {[initialState EXCEPT !.items = c] : c \in MergeCarts}
    /\ lastOp = StoreOp("none")
    /\ localStorage = emptyStorage
    /\ mount = Mounted
    /\ pendingSave = FALSE
    /\ lastWrite = NoWrite
    /\ crashed = FALSE
    /\ appState = anonymous
    /\ remoteCart \in {c \in MergeCarts :
                         \A i \in DOMAIN c : c[i].quantity <= c[i].stock \/ c[i].stock = 0}
    /\ CatalogAtRest

\* CartEngine.mergeFrom(remoteCartSnapshot)
MergeFrom ==
    LET merged == mergeFrom(state.items, remoteCart) IN
    /\ \A i \in DOMAIN merged : merged[i].quantity <= MaxMergedQty
    /\ state' = [state EXCEPT !.items = merged]
    /\ lastOp' = StoreOp("mergeFrom")
    /\ UNCHANGED <<storeVars, catalogVars>>

MergeNext == MergeFrom

MergeSpec == MergeInit /\ [][MergeNext]_vars

(* ------------------------- catalog (CatalogSpec) ----------------------- *)

\* String.prototype.toLowerCase, per character
LowerChar(c) == CASE c = "A" -> "a" [] c = "B" -> "b" [] OTHER -> c
toLowerCase(s) == [i \in DOMAIN s |-> LowerChar(s[i])]

\* String.prototype.includes
includes(s, q) ==
    \E i \in 0..(Len(s) - Len(q)) : SubSeq(s, i + 1, i + Len(q)) = q

\* UTF-16 code unit of a character
CharCode(c) ==
    CASE c = "A" -> 65 [] c = "B" -> 66 [] c = "a" -> 97 [] c = "b" -> 98
      [] OTHER -> 120

RECURSIVE StringGreater(_, _)
\* a > b on strings: by code units, a proper prefix is smaller
StringGreater(a, b) ==
    IF a = <<>> THEN FALSE
    ELSE IF b = <<>> THEN TRUE
    ELSE IF CharCode(Head(a)) # CharCode(Head(b))
         THEN CharCode(Head(a)) > CharCode(Head(b))
         ELSE StringGreater(Tail(a), Tail(b))

\* parseInt / parseFloat of a filter field: the number, or NaN
IsNumeric(str) == \E n \in JsonNumbers : ToString(n) = str
parseNumber(str) == CHOOSE n \in JsonNumbers : ToString(n) = str

matchesSearchCaseSensitive(product, searchQuery) ==
    \/ includes(toLowerCase(product.name), searchQuery)
    \/ includes(toLowerCase(product.description), searchQuery)

\* name or description, lower-cased, includes the lower-cased query
matchesSearch(product, searchQuery) ==
    LET query == toLowerCase(searchQuery) IN
    \/ includes(toLowerCase(product.name), query)
    \/ includes(toLowerCase(product.description), query)

\* product.category_id === parseInt(filters.category)
matchesCategory(product, category) ==
    IsNumeric(category) /\ product.category_id = parseNumber(category)

\* product.price >= parseFloat(filters.minPrice)
matchesMinPrice(product, minPrice) ==
    IsNumeric(minPrice) /\ product.price >= parseNumber(minPrice)

\* product.price <= parseFloat(filters.maxPrice)
matchesMaxPrice(product, maxPrice) ==
    IsNumeric(maxPrice) /\ product.price <= parseNumber(maxPrice)

\* getFilteredProducts, the four filters in turn
filterProducts(ps) ==
    LET bySearch ==
            IF ps.searchQuery # <<>>
            THEN SelectSeq(ps.products, LAMBDA p : matchesSearch(p, ps.searchQuery))
            ELSE ps.products
        byCategory ==
            IF ps.filters.category # ""
            THEN SelectSeq(bySearch, LAMBDA p : matchesCategory(p, ps.filters.category))
            ELSE bySearch
        byMin ==
            IF ps.filters.minPrice # ""
            THEN SelectSeq(byCategory, LAMBDA p : matchesMinPrice(p, ps.filters.minPrice))
            ELSE byCategory
    IN  IF ps.filters.maxPrice # ""
        THEN SelectSeq(byMin, LAMBDA p : matchesMaxPrice(p, ps.filters.maxPrice))
        ELSE byMin

\* aValue > bValue for a[sortBy], b[sortBy], strings lower-cased
SortValueGreater(a, b, sortBy) ==
    IF sortBy = "name"
    THEN StringGreater(toLowerCase(a.name), toLowerCase(b.name))
    ELSE a.price > b.price

\* the comparator handed to filtered.sort
compareProducts(a, b, filters) ==
    IF filters.sortOrder = "asc"
    THEN IF SortValueGreater(a, b, filters.sortBy) THEN 1 ELSE -1
    ELSE IF SortValueGreater(b, a, filters.sortBy) THEN 1 ELSE -1

\* Array.prototype.sort with this comparator: it answers -1 both ways for
\* equal values, so the order of equal values is left to the engine; every
\* arrangement that puts no product after one it must precede is an outcome.
sortOutcomes(filtered, filters) ==
    IF filtered = <<>> THEN {<<>>}
    ELSE {s \in {[i \in DOMAIN filtered |-> filtered[perm[i]]] :
                    perm \in Permutations(DOMAIN filtered)} :
            \A i, j \in DOMAIN s :
                i < j => ~(/\ compareProducts(s[i], s[j], filters) = 1
                           /\ compareProducts(s[j], s[i], filters) = -1)}

\* case 'SET_PRODUCTS'
ReduceSetProducts(ps, payload) == [ps EXCEPT !.products = payload, !.loading = FALSE]

\* case 'SET_LOADING' of the product reducer
ReduceSetProductsLoading(ps, payload) == [ps EXCEPT !.loading = payload]

\* case 'SET_SEARCH_QUERY'
ReduceSetSearchQuery(ps, payload) == [ps EXCEPT !.searchQuery = payload]

\* case 'SET_FILTERS': { ...state.filters, ...payload } for a one-field payload
ReduceSetFilters(ps, field, value) == [ps EXCEPT !.filters[field] = value]

\* case 'SET_FILTERS' for a payload of several fields
ReduceSetFiltersPayload(ps, payload) ==
    [ps EXCEPT !.filters =
        [f \in DOMAIN ps.filters |->
            IF f \in DOMAIN payload THEN payload[f] ELSE ps.filters[f]]]

\* case 'SET_PAGINATION': { ...state.pagination, ...payload }
ReduceSetPagination(ps, payload) ==
    [ps EXCEPT !.pagination =
        [f \in DOMAIN ps.pagination |->
            IF f \in DOMAIN payload THEN payload[f] ELSE ps.pagination[f]]]

\* setSearchQuery(query)
setSearchQuery(ps, query) ==
    ReduceSetPagination(ReduceSetSearchQuery(ps, query), [currentPage |-> 1])

\* setFilters(newFilters), newFilters = { [field]: value }
setFilters(ps, field, value) ==
    ReduceSetPagination(ReduceSetFilters(ps, field, value), [currentPage |-> 1])

\* setCurrentPage(page)
setCurrentPage(ps, page) == ReduceSetPagination(ps, [currentPage |-> page])

\* clearFilters()
clearFilters(ps) ==
    ReduceSetSearchQuery(
        ReduceSetFiltersPayload(ps,
            [category |-> "", minPrice |-> "", maxPrice |-> "",
             sortBy |-> "name", sortOrder |-> "asc"]),
        <<>>)

\* The name of a category, as the mock products carry it
CategoryName(category) == IF category = 1 THEN <<"a", "x">> ELSE <<"B">>

\* The catalog the remote store serves.
Product(id, name, description, category, price) ==
    [id |-> id, name |-> name, description |-> description,
     category_id |-> category, category |-> CategoryName(category),
     price |-> price]

Catalog ==
    {Product(1, <<"A", "b">>, <<"x">>, 1, 10),
     Product(2, <<"a", "B">>, <<"b", "x">>, 1, 10),
     Product(3, <<"B">>, <<"A">>, 2, 25)}

\* The product lists SET_PRODUCTS may have put in state.products: the
\* catalog, or all but one of its products, in any order.
BaseSets ==
    UNION {{b \in [1..Cardinality(S) -> S] : \A i, j \in DOMAIN b : i # j => b[i] # b[j]} :
              S \in {T \in SUBSET Catalog : Cardinality(T) >= 2}}

SearchQueries == {<<>>, <<"a">>, <<"B">>, <<"a", "b">>, <<"x">>}
FilterValues(field) ==
    CASE field = "category" -> {"", "1", "2"}
      [] field = "minPrice" -> {"", "10", "20"}
      [] field = "maxPrice" -> {"", "10", "20"}
      [] field = "sortBy" -> {"name", "price"}
      [] field = "sortOrder" -> {"asc", "desc"}

CatalogInit ==
    /\ state = initialState
    /\ lastOp = StoreOp("none")
    /\ localStorage = emptyStorage
    /\ mount = Mounted
    /\ pendingSave = FALSE
    /\ lastWrite = NoWrite
    /\ crashed = FALSE
    /\ appState = anonymous
    /\ remoteCart = <<>>
    /\ productState \in {[initialProductState EXCEPT !.products = b] : b \in BaseSets}
    /\ visible = <<>>
    /\ service = ServiceAtRest

\* setSearchQuery(query), on a product list that is held fixed
SetSearchQuery ==
    \E query \in SearchQueries :
        /\ productState' = setSearchQuery(productState, query)
        /\ lastOp' = StoreOp("setSearchQuery")
        /\ UNCHANGED <<state, storeVars, visible, service>>

\* setFilters(newFilters), on a product list that is held fixed
SetFilters ==
    \E field \in {"category", "minPrice", "maxPrice", "sortBy", "sortOrder"} :
        \E value \in FilterValues(field) :
            /\ productState' = setFilters(productState, field, value)
            /\ lastOp' = StoreOp("setFilters")
            /\ UNCHANGED <<state, storeVars, visible, service>>

\* A consumer renders getFilteredProducts().
GetFilteredProducts ==
    /\ visible' \in sortOutcomes(filterProducts(productState), productState.filters)
    /\ lastOp' = StoreOp("getFilteredProducts")
    /\ UNCHANGED <<state, storeVars, productState, service>>

CatalogNext ==
    \/ SetSearchQuery
    \/ SetFilters
    \/ GetFilteredProducts

CatalogSpec == CatalogInit /\ [][CatalogNext]_vars

(* ----------------------- product service (PageSpec) -------------------- *)

\* Largest page number a call asks for.
MaxPage == 4

\* mockProducts: the catalog's three products and three more
mockProducts ==
    <<Product(1, <<"A", "b">>, <<"x">>, 1, 10),
      Product(2, <<"a", "B">>, <<"b", "x">>, 1, 10),
      Product(3, <<"B">>, <<"A">>, 2, 25),
      Product(4, <<"b", "a">>, <<"a">>, 2, 25),
      Product(5, <<"x">>, <<"x", "a">>, 1, 10),
      Product(6, <<"A">>, <<"B", "b">>, 2, 10)>>

Min(a, b) == IF a < b THEN a ELSE b
Max(a, b) == IF a > b THEN a ELSE b

sliceInclusiveEnd(seq, start, end) ==
    LET from == IF start < 0 THEN Max(Len(seq) + start, 0) ELSE Min(start, Len(seq))
        to == IF end < 0 THEN Max(Len(seq) + end, 0) ELSE Min(end, Len(seq))
    IN  SubSeq(seq, from + 1, Min(to + 1, Len(seq)))

\* Array.prototype.slice(start, end): a negative index counts from the end,
\* the result is empty when end is not after start
slice(seq, start, end) ==
    LET from == IF start < 0 THEN Max(Len(seq) + start, 0) ELSE Min(start, Len(seq))
        to == IF end < 0 THEN Max(Len(seq) + end, 0) ELSE Min(end, Len(seq))
    IN  SubSeq(seq, from + 1, to)

\* Math.ceil(n / limit)
ceilDiv(n, limit) == (n + (limit - 1)) \div limit

pageOfZeroIndexed(list, page, limit) ==
    [products |-> slice(list, page * limit, (page * limit) + limit),
     totalItems |-> Len(list),
     totalPages |-> ceilDiv(Len(list), limit),
     currentPage |-> page]

\* startIndex = (page - 1) * limit, endIndex = startIndex + limit, and the
\* response built from list.slice(startIndex, endIndex)
pageOf(list, page, limit) ==
    [products |-> slice(list, (page - 1) * limit, ((page - 1) * limit) + limit),
     totalItems |-> Len(list),
     totalPages |-> ceilDiv(Len(list), limit),
     currentPage |-> page]

\* ProductService.getProducts(params) with the API out of reach (this
\* repository holds no backend): the page of the products served
getProducts(products, params) == pageOf(products, params.page, params.limit)

\* the products searchProducts keeps: name, description or category,
\* lower-cased, includes the lower-cased query
matchesQuery(product, query) ==
    \/ includes(toLowerCase(product.name), toLowerCase(query))
    \/ includes(toLowerCase(product.description), toLowerCase(query))
    \/ includes(toLowerCase(product.category), toLowerCase(query))

\* ProductService.searchProducts(query, params), same fallback
searchProducts(products, params) ==
    pageOf(SelectSeq(products, LAMBDA p : matchesQuery(p, params.search)),
           params.page, params.limit)

\* Page numbers and page sizes callers ask for; pages are counted from 1
\* (initialState.pagination.currentPage, the default of params.page).
Pages == 1..MaxPage
PageSizes == {1, 2, 3, 4, 12}

PageInit ==
    /\ state = initialState
    /\ lastOp = StoreOp("none")
    /\ StoreAtRest
    /\ productState = initialProductState
    /\ visible = <<>>
    /\ service = [ServiceAtRest EXCEPT !.products = mockProducts]

\* A caller awaits productService.getProducts({page, limit}).
GetProducts ==
    \E page \in Pages, limit \in PageSizes :
        LET params == [call |-> "getProducts", page |-> page, limit |-> limit,
                       search |-> <<>>]
        IN  /\ service' = [service EXCEPT
                                !.latest = params,
                                !.response = getProducts(service.products, params)]
            /\ lastOp' = StoreOp("getProducts")
            /\ UNCHANGED <<state, storeVars, productState, visible>>

\* A caller awaits productService.searchProducts(query, {page, limit}).
SearchProducts ==
    \E query \in SearchQueries, page \in Pages, limit \in PageSizes :
        LET params == [call |-> "searchProducts", page |-> page, limit |-> limit,
                       search |-> query]
        IN  /\ service' = [service EXCEPT
                                !.latest = params,
                                !.response = searchProducts(service.products, params)]
            /\ lastOp' = StoreOp("searchProducts")
            /\ UNCHANGED <<state, storeVars, productState, visible>>

PageNext ==
    \/ GetProducts
    \/ SearchProducts

PageSpec == PageInit /\ [][PageNext]_vars

(* ------------------------ product loads (LoadSpec) --------------------- *)

\* Largest number of loadProducts calls issued in one run.
MaxLoads == 4

\* loadProducts() up to its await: SET_LOADING true, and the request with
\* the parameters of the render it was created in
loadProductsStart(ps) == ReduceSetProductsLoading(ps, TRUE)

loadRequest(ps, seq) ==
    [seq |-> seq, call |-> "getProducts",
     page |-> ps.pagination.currentPage, limit |-> ps.pagination.itemsPerPage,
     search |-> ps.searchQuery, filters |-> ps.filters]

\* loadProducts() after its await: SET_PRODUCTS, then SET_PAGINATION
loadProductsFinish(ps, response) ==
    ReduceSetPagination(ReduceSetProducts(ps, response.products),
                        [totalPages |-> response.totalPages,
                         totalItems |-> response.totalItems])

\* n more loadProducts calls of the render with state ps
Issue(svc, ps, n) ==
    [svc EXCEPT
        !.requests = @ \cup {loadRequest(ps, svc.issued + k) : k \in 1..n},
        !.issued = @ + n,
        !.latest = IF n > 0
                   THEN [call |-> "getProducts", page |-> ps.pagination.currentPage,
                         limit |-> ps.pagination.itemsPerPage, search |-> ps.searchQuery]
                   ELSE @]

\* The effect on [state.filters, state.searchQuery, pagination.currentPage]
\* runs after a render in which one of them is another value or object.
EffectRuns(old, new, newFiltersObject) ==
    \/ newFiltersObject
    \/ new.searchQuery # old.searchQuery
    \/ new.pagination.currentPage # old.pagination.currentPage

\* A handler call gives state new; the effect, if it runs, calls loadProducts.
LoadStep(new, newFiltersObject, name) ==
    LET n == IF EffectRuns(productState, new, newFiltersObject) THEN 1 ELSE 0 IN
    /\ service.issued >= 2
    /\ service.issued + n <= MaxLoads
    /\ productState' = IF n = 1 THEN loadProductsStart(new) ELSE new
    /\ service' = Issue(service, new, n)
    /\ lastOp' = StoreOp(name)
    /\ UNCHANGED <<state, storeVars, visible>>

LoadQueries == {<<>>, <<"a">>}
LoadCategories == {"", "1"}
LoadPages == 1..2

LoadInit ==
    /\ state = initialState
    /\ lastOp = StoreOp("none")
    /\ StoreAtRest
    /\ productState = initialProductState
    /\ visible = <<>>
    /\ service = [ServiceAtRest EXCEPT !.products = mockProducts]

\* Mount: both effects run and each calls loadProducts().
LoadMount ==
    /\ service.issued = 0
    /\ productState' = loadProductsStart(loadProductsStart(productState))
    /\ service' = Issue(service, productState, 2)
    /\ lastOp' = StoreOp("mount")
    /\ UNCHANGED <<state, storeVars, visible>>

LoadSetSearchQuery ==
    \E query \in LoadQueries :
        LoadStep(setSearchQuery(productState, query), FALSE, "setSearchQuery")

LoadSetFilters ==
    \E category \in LoadCategories :
        LoadStep(setFilters(productState, "category", category), TRUE, "setFilters")

LoadSetCurrentPage ==
    \E page \in LoadPages :
        LoadStep(setCurrentPage(productState, page), FALSE, "setCurrentPage")

LoadClearFilters == LoadStep(clearFilters(productState), TRUE, "clearFilters")

\* The response to one of the calls in flight arrives.
LoadResponse ==
    \E r \in service.requests :
        /\ productState' = loadProductsFinish(productState, getProducts(service.products, r))
        /\ service' = [service EXCEPT !.requests = @ \ {r}]
        /\ lastOp' = StoreOp("response")
        /\ UNCHANGED <<state, storeVars, visible>>

LoadNext ==
    \/ LoadMount
    \/ LoadSetSearchQuery
    \/ LoadSetFilters
    \/ LoadSetCurrentPage
    \/ LoadClearFilters
    \/ LoadResponse

LoadSpec == LoadInit /\ [][LoadNext]_vars

(* ------------------------------ claims --------------------------------- *)

\* Number of units in the cart, counted unit by unit: one element per unit of
\* a line with a positive quantity, minus one per unit of a negative one.
UnitCount(items) ==
    Cardinality(UNION {{<<i, k>> : k \in 1..items[i].quantity} : i \in DOMAIN items})
    - Cardinality(UNION {{<<i, k>> : k \in 1..(0 - items[i].quantity)} : i \in DOMAIN items})

\* Value of the cart, counted currency unit by currency unit.
UnitValue(items) ==
    Cardinality(UNION {{<<i, k, u>> : k \in 1..items[i].quantity, u \in 1..items[i].price}
                        : i \in DOMAIN items})
    - Cardinality(UNION {{<<i, k, u>> : k \in 1..(0 - items[i].quantity), u \in 1..items[i].price}
                          : i \in DOMAIN items})

\* C1: after every step of any sequence of addToCart / updateQuantity /
\* removeFromCart / clearCart, getCartItemCount() is the sum of the quantities
\* of the current lines and getCartTotal() the sum of price x quantity.
C1_TotalsMatchLines ==
    /\ getCartItemCount(state) = UnitCount(state.items)
    /\ getCartTotal(state) = UnitValue(state.items)

C1_Witness ==
    /\ lastOp.op = "updateQuantity"
    /\ Len(state.items) = 2
    /\ state.items[1].quantity # state.items[2].quantity
    /\ state.items[1].price # state.items[2].price
    /\ getCartItemCount(state) = 3

\* C2: in every cart reachable from the empty cart by add, quantity update,
\* remove and clear, no two lines have the same line key (nor the same id).
C2_UniqueLineKeys ==
    \A i, j \in DOMAIN state.items :
        i # j => /\ LineKey(state.items[i]) # LineKey(state.items[j])
                 /\ state.items[i].id # state.items[j].id

\* an add has merged into an existing line while another line is in the cart
C2_Witness ==
    /\ lastOp.op = "addToCart"
    /\ lastOp.found
    /\ lastOp.q >= 1
    /\ Len(state.items) = 2

\* C3: every cart line's quantity is a positive integer, whatever quantities
\* callers pass to addToCart and updateQuantity.
C3_QuantityPositive ==
    \A i \in DOMAIN state.items : state.items[i].quantity >= 1

\* C4: addToCart(product, q) on a cart holding a line the reducer matches
\* adds q to that line's quantity, keeps its price and position and every
\* other line; without such a line it appends one line of quantity q.
C4_AddMergesOrAppends ==
    [][lastOp'.op = "addToCart" =>
        LET p == lastOp'.product
            q == lastOp'.q
            old == state.items
            new == state'.items
        IN  IF \E i \in DOMAIN old : old[i].id = p.id
            THEN /\ Len(new) = Len(old)
                 /\ \A i \in DOMAIN old :
                        IF old[i].id = p.id
                        THEN /\ new[i].quantity = old[i].quantity + q
                             /\ new[i].price = old[i].price
                             /\ new[i].id = old[i].id
                             /\ new[i].cartId = old[i].cartId
                             /\ new[i].selectedSize = old[i].selectedSize
                             /\ new[i].selectedColor = old[i].selectedColor
                             /\ new[i].stock = old[i].stock
                        ELSE new[i] = old[i]
            ELSE /\ Len(new) = Len(old) + 1
                 /\ SubSeq(new, 1, Len(old)) = old
                 /\ new[Len(new)] = WithQuantity(p, q)]_vars

\* an add of a product at another price has merged into the second line
C4_Witness ==
    /\ lastOp.op = "addToCart"
    /\ lastOp.found
    /\ Len(state.items) = 2
    /\ state.items[2].id = lastOp.product.id
    /\ state.items[2].price # lastOp.product.price
    /\ state.items[2].quantity = 2

\* C5: the key that decides whether an add merges is the product id plus the
\* variant selectors, so after an add the cart holds a line for exactly the
\* added product and variant.
C5_AddKeyedByVariant ==
    lastOp.op = "addToCart" =>
        \E i \in DOMAIN state.items :
            /\ state.items[i].id = lastOp.product.id
            /\ state.items[i].selectedSize = lastOp.product.selectedSize
            /\ state.items[i].selectedColor = lastOp.product.selectedColor

\* C6: updateQuantity(key, q) with q <= 0 gives the state removeFromCart(key)
\* gives; with q >= 1 and the line present it replaces that line's quantity
\* by q and changes nothing else.
C6_UpdateQuantity ==
    [][lastOp'.op = "updateQuantity" =>
        LET key == lastOp'.key
            q == lastOp'.q
        IN  IF q <= 0
            THEN state' = removeFromCart(state, key)
            ELSE /\ state'.loading = state.loading
                 /\ state'.error = state.error
                 /\ Len(state'.items) = Len(state.items)
                 /\ \A i \in DOMAIN state.items :
                        IF StrictEqId(state.items[i].id, key)
                        THEN state'.items[i] = [state.items[i] EXCEPT !.quantity = q]
                        ELSE state'.items[i] = state.items[i]]_vars

\* updateQuantity(key, 0) has taken a line out of a cart of two
C6_Witness ==
    /\ lastOp.op = "updateQuantity"
    /\ lastOp.q = 0
    /\ lastOp.found
    /\ Len(state.items) = 1

\* C7: removeFromCart(key) for a key the cart does not hold resolves and
\* leaves the state unchanged, and removing a key twice gives the state
\* removing it once gives.
C7_RemoveAbsent ==
    [][/\ (lastOp'.op = "removeFromCart" /\ ~lastOp'.found) =>
            (state' = state /\ lastOp'.result = "resolved")
       /\ lastOp'.op = "removeFromCart" =>
            removeFromCart(state', lastOp'.key) = state']_vars

\* a remove of an absent key was applied to a cart that holds lines
C7_Witness ==
    /\ lastOp.op = "removeFromCart"
    /\ ~lastOp.found
    /\ Len(state.items) = 2

\* C8: an add with quantity < 1 is rejected with an InvalidQuantity outcome
\* and leaves the cart state as it was.
C8_AddRejectsInvalidQuantity ==
    [][(lastOp'.op = "addToCart" /\ lastOp'.q < 1) =>
        (lastOp'.result = "InvalidQuantity" /\ state' = state)]_vars

\* C9: updateQuantity(key, q) with q >= 1 for a key the cart does not hold
\* reports a LineNotFound failure to the caller.
C9_UpdateReportsLineNotFound ==
    (lastOp.op = "updateQuantity" /\ lastOp.q >= 1 /\ ~lastOp.found) =>
        (lastOp.result = "LineNotFound" \/ state.error = "LineNotFound")

\* C10: a line whose stock bound is known never holds more than that bound.
C10_QuantityWithinStock ==
    \A i \in DOMAIN state.items :
        state.items[i].stock # 0 => state.items[i].quantity <= state.items[i].stock

\* C11: saving a cart with storage.saveCart and loading it with
\* storage.getCart yields the same lines in the same order with the same
\* quantities, for every cart the program holds and every successful write.
C11_SaveLoadRoundTrip ==
    LET sv == saveCart(localStorage, state.items, TRUE) IN
    /\ sv.returned
    /\ getCart(sv.ls) = [threw |-> FALSE, value |-> JsArray(state.items)]

\* a cart of two lines has been written and is what the cart key holds
C11_Witness ==
    /\ Len(state.items) = 2
    /\ state.items[1].quantity # state.items[2].quantity
    /\ lastWrite.status = "ok"
    /\ ~pendingSave
    /\ mount.pc = "run"
    /\ localStorage.cart = Stored(JSONstringify(state.items))

\* C12: storage.getCart returns the empty cart and does not throw when
\* nothing is stored under the cart key or the payload fails to deserialize.
C12_LoadAbsentOrCorrupt ==
    /\ ~crashed
    /\ (\/ ~localStorage.cart.present
        \/ localStorage.cart.text = <<>>
        \/ ~JSONparse(localStorage.cart.text).ok)
       => getCart(localStorage) = [threw |-> FALSE, value |-> JsArray(<<>>)]

\* the load effect has run on a payload that does not parse
C12_Witness ==
    /\ mount.pc = "mountSave"
    /\ localStorage.cart.present
    /\ localStorage.cart.text # <<>>
    /\ ~JSONparse(localStorage.cart.text).ok
    /\ mount.queued
    /\ mount.queuedItems = <<>>

\* C13: when a write to localStorage fails, the in-memory cart keeps the
\* mutation that triggered it, no error escapes, and the cart stays usable.
C13_WriteFailureKeepsCart ==
    /\ [](~crashed)
    /\ [][(mount.pc = "run" /\ pendingSave /\ ~pendingSave' /\ mount'.pc = "run"
           /\ lastWrite'.status = "failed")
          => (state' = state /\ state'.error = "null")]_vars

\* a cart operation was applied after a write had failed
C13_Witness ==
    /\ lastWrite.status = "failed"
    /\ pendingSave
    /\ mount.pc = "run"
    /\ lastOp.op = "addToCart"
    /\ Len(state.items) = 2

\* C14: once the save effect has run and its write succeeded, the stored
\* snapshot is the in-memory line list, and a reload from such a state
\* restores the lines and quantities held before it.
C14_StoredSnapshotRestores ==
    /\ []((mount.pc = "run" /\ ~pendingSave /\ lastWrite.status = "ok")
            => getCart(localStorage).value = JsArray(state.items))
    /\ [][(mount.pc = "mountSave" /\ mount.synced /\ mount'.pc = "run")
            => state'.items = mount.before]_vars

\* a reload from a saved cart of two lines has restored it
C14_Witness ==
    /\ lastOp.op = "mount"
    /\ mount.pc = "run"
    /\ Len(state.items) = 2
    /\ state.items # SavedCart
    /\ pendingSave

\* C15: logout leaves the in-memory cart lines and the stored cart snapshot
\* as they were.
C15_LogoutKeepsCart ==
    [][(mount.pc = "run" /\ mount'.pc = "run"
        /\ appState.isAuthenticated /\ ~appState'.isAuthenticated)
       => (state' = state /\ localStorage'.cart = localStorage.cart)]_vars

\* a logout with a saved cart in memory and in storage
C15_Witness ==
    /\ lastOp.op = "logout"
    /\ ~appState.isAuthenticated
    /\ Len(state.items) >= 1
    /\ localStorage.cart = Stored(JSONstringify(state.items))
    /\ ~localStorage.userData.present

\* C16: a successful login merges the remote store's prior cart into the
\* local cart when the remote store holds one.
C16_LoginMergesRemoteCart ==
    (lastOp.op = "login" /\ remoteCart # <<>>) =>
        \A j \in DOMAIN remoteCart :
            \E i \in DOMAIN state.items : state.items[i].id = remoteCart[j].id

\* The foreign quantity for a local line: that of the foreign line with the
\* same lineId, 0 when there is none.
ForeignQuantity(line, other) ==
    IF \E j \in DOMAIN other : SameLine(other[j], line)
    THEN other[CHOOSE j \in DOMAIN other : SameLine(other[j], line)].quantity
    ELSE 0

Unmatched(items, other) ==
    SelectSeq(other, LAMBDA f : ~\E i \in DOMAIN items : SameLine(items[i], f))

\* C17 as stated: a merge adds the foreign quantity to every local line with
\* an equal key, inserts every unmatched foreign line as it is, and orders
\* the result as local lines first, then the unmatched foreign lines.
C17_MergeAddsQuantities ==
    [][lastOp'.op = "mergeFrom" =>
        LET old == state.items
            new == state'.items
        IN  /\ Len(new) = Len(old) + Len(Unmatched(old, remoteCart))
            /\ \A i \in DOMAIN old :
                new[i] = [old[i] EXCEPT
                            !.quantity = @ + ForeignQuantity(old[i], remoteCart)]
            /\ SubSeq(new, Len(old) + 1, Len(new)) = Unmatched(old, remoteCart)]_vars

\* C17 amended: the sum is clamped to the local line's stock hint when one
\* is known.
C17_MergeAddsClamped ==
    [][lastOp'.op = "mergeFrom" =>
        LET old == state.items
            new == state'.items
        IN  /\ Len(new) = Len(old) + Len(Unmatched(old, remoteCart))
            /\ \A i \in DOMAIN old :
                LET sum == old[i].quantity + ForeignQuantity(old[i], remoteCart) IN
                new[i] = [old[i] EXCEPT
                            !.quantity =
                                IF /\ \E j \in DOMAIN remoteCart : SameLine(remoteCart[j], old[i])
                                   /\ old[i].stock # 0
                                   /\ sum > old[i].stock
                                THEN old[i].stock ELSE sum]
            /\ SubSeq(new, Len(old) + 1, Len(new)) = Unmatched(old, remoteCart)]_vars

\* local {A:1} merged with foreign {A:2, B:1} has given {A:3, B:1}
C17_Witness ==
    /\ lastOp.op = "mergeFrom"
    /\ Len(remoteCart) = 2
    /\ Len(state.items) = 2
    /\ SameLine(state.items[1], remoteCart[1])
    /\ SameLine(state.items[2], remoteCart[2])
    /\ state.items[1].quantity = 3
    /\ remoteCart[1].quantity = 2
    /\ state.items[2] = remoteCart[2]

\* The revision the cart state carries: state.revision
Revision(s) == [defined |-> FALSE, value |-> 0]

\* C18: the cart state carries a revision counter that every successful
\* mutation increases by exactly 1.
C18_RevisionIncrements ==
    [][lastOp'.op \in {"addToCart", "updateQuantity", "removeFromCart", "clearCart"} =>
        /\ Revision(state').defined
        /\ Revision(state').value = Revision(state).value + 1]_vars

\* the two characters are the same letter, whatever their case
SameLetter(c, d) ==
    \/ c = d
    \/ {c, d} = {"a", "A"}
    \/ {c, d} = {"b", "B"}

\* term occurs in text as a case-insensitive substring
OccursIn(term, text) ==
    \E off \in 0..(Len(text) - Len(term)) :
        \A k \in 1..Len(term) : SameLetter(text[off + k], term[k])

\* the number a filter field is set to
FieldNumber(str) == CHOOSE n \in 0..30 : ToString(n) = str

\* product p is one the query of ps asks for
Wanted(p, ps) ==
    /\ ps.searchQuery # <<>> =>
        (OccursIn(ps.searchQuery, p.name) \/ OccursIn(ps.searchQuery, p.description))
    /\ ps.filters.category # "" => p.category_id = FieldNumber(ps.filters.category)
    /\ ps.filters.minPrice # "" => p.price >= FieldNumber(ps.filters.minPrice)
    /\ ps.filters.maxPrice # "" => p.price <= FieldNumber(ps.filters.maxPrice)

\* C19: getFilteredProducts keeps exactly the products whose name or
\* description contains the search term (case-insensitively), whose category
\* is the category filter when set, and whose price is within the bounds set.
C19_FilterKeepsExactlyWanted ==
    lastOp.op = "getFilteredProducts" =>
        /\ {visible[i] : i \in DOMAIN visible}
            = {productState.products[i] :
                 i \in {k \in DOMAIN productState.products :
                          Wanted(productState.products[k], productState)}}
        /\ \A i, j \in DOMAIN visible : i # j => visible[i] # visible[j]

\* an upper-case search term and a price bound have kept one product of three
C19_Witness ==
    /\ lastOp.op = "getFilteredProducts"
    /\ productState.searchQuery = <<"B">>
    /\ productState.filters.maxPrice = "10"
    /\ productState.filters.category = "1"
    /\ Len(productState.products) = 3
    /\ Len(visible) = 2

\* C20: the result is sorted by the requested key in the requested
\* direction and products with equal sort keys appear in ascending id order.
C20_SortedWithIdTieBreak ==
    lastOp.op = "getFilteredProducts" =>
        \A i, j \in DOMAIN visible :
            i < j =>
                /\ compareProducts(visible[j], visible[i], productState.filters) = 1
                    \/ compareProducts(visible[i], visible[j], productState.filters) = -1
                /\ (/\ ~SortValueGreater(visible[i], visible[j], productState.filters.sortBy)
                    /\ ~SortValueGreater(visible[j], visible[i], productState.filters.sortBy))
                   => visible[i].id < visible[j].id

\* the products a search for the term keeps, found letter by letter
Matching(products, term) ==
    SelectSeq(products, LAMBDA p : \/ OccursIn(term, p.name)
                                   \/ OccursIn(term, p.description)
                                   \/ OccursIn(term, p.category))

\* the product set the last call to the service paged
PagedSet ==
    IF service.latest.call = "searchProducts"
    THEN Matching(service.products, service.latest.search)
    ELSE service.products

\* what the same call returns for the page after the one it asked for
NextPage ==
    LET next == [service.latest EXCEPT !.page = @ + 1] IN
    IF service.latest.call = "searchProducts"
    THEN searchProducts(service.products, next).products
    ELSE getProducts(service.products, next).products

\* C21: for a fixed product set and page size the slices for page N and page
\* N+1 have no product in common, page N+1 starts right after the last
\* product of page N, and a page past the end of the set is empty.
C21_PagesDisjointContiguous ==
    lastOp.op \in {"getProducts", "searchProducts"} =>
        LET pageN == service.response.products IN
        /\ \A i \in DOMAIN pageN, j \in DOMAIN NextPage : pageN[i] # NextPage[j]
        /\ \E k \in 0..Len(PagedSet) :
                pageN \o NextPage
                    = SubSeq(PagedSet, k + 1, k + Len(pageN) + Len(NextPage))
        /\ Len(pageN) < service.latest.limit => NextPage = <<>>

\* the second page of four holds the last two products, the third is empty
C21_Witness ==
    /\ lastOp.op = "getProducts"
    /\ service.latest.limit = 4
    /\ service.latest.page = 2
    /\ Len(service.response.products) = 2
    /\ service.response.products[1].id = 5
    /\ NextPage = <<>>

\* the products of list at the zero-based positions from .. from + size - 1
PageSlice(list, from, size) ==
    LET positions == {i \in DOMAIN list : i - 1 >= from /\ i - 1 < from + size}
    IN  [j \in 1..Cardinality(positions) |-> list[from + j]]

\* C22 as stated: pages are zero-indexed, page p with page size s is the
\* slice [p x s, p x s + s).
C22_PagesZeroIndexed ==
    lastOp.op \in {"getProducts", "searchProducts"} =>
        service.response.products
            = PageSlice(PagedSet, service.latest.page * service.latest.limit,
                        service.latest.limit)

\* C22 amended: pages are counted from 1, page p with page size s is the
\* slice [(p - 1) x s, (p - 1) x s + s).
C22_PagesOneIndexed ==
    lastOp.op \in {"getProducts", "searchProducts"} =>
        service.response.products
            = PageSlice(PagedSet, (service.latest.page - 1) * service.latest.limit,
                        service.latest.limit)

\* six products, page size 12: page 2 is empty
C22_Witness ==
    /\ lastOp.op = "getProducts"
    /\ Len(service.products) = 6
    /\ service.latest.limit = 12
    /\ service.latest.page = 2
    /\ service.response.products = <<>>
    /\ service.response.totalPages = 1

\* C23: for every line the cart page shows, its remove button takes that line
\* out of the cart and its +/- controls set that line's quantity: the key the
\* page passes is one the reducer's comparison matches.
C23_CartPageKeyMatches ==
    lastOp.via = "Cart" =>
        /\ lastOp.found
        /\ lastOp.op = "removeFromCart" =>
                ~\E i \in DOMAIN state.items : LineKey(state.items[i]) = lastOp.key
        /\ lastOp.op = "updateQuantity" =>
                \E i \in DOMAIN state.items :
                    /\ LineKey(state.items[i]) = lastOp.key
                    /\ state.items[i].quantity = lastOp.q

\* C24: adding from the product detail page with selected quantity q raises
\* the cart's item count by exactly q.
C24_DetailAddsSelectedQuantity ==
    [][lastOp'.via = "ProductDetail" =>
        getCartItemCount(state') = getCartItemCount(state) + lastOp'.selected]_vars

\* C26: once every product load in flight has completed, the product list
\* and the pagination totals in state are those of the response to the load
\* issued last, in whatever order the responses arrived.
C26_LatestLoadWins ==
    (service.requests = {} /\ service.issued > 0) =>
        LET response == getProducts(service.products, service.latest) IN
        /\ productState.products = response.products
        /\ productState.pagination.totalPages = response.totalPages
        /\ productState.pagination.totalItems = response.totalItems

\* C27: once an addToCart call has finished, the cart's loading flag is false.
C27_LoadingFalseAfterAdd ==
    lastOp.op = "addToCart" => state.loading = FALSE

\* C25: when the application starts on a non-empty stored cart, the mount
\* effects never overwrite the stored snapshot with the empty initial cart
\* before the restore is applied, and the cart in memory after startup is the
\* stored one.
C25_StartupKeepsStoredCart ==
    [][(mount.pc = "mountSave" /\ mount.queued /\ mount.queuedKind = "array"
        /\ mount.queuedItems # <<>>)
       => /\ localStorage'.cart # Stored(JSONstringify(<<>>))
          /\ mount'.pc = "run" => state'.items = mount.queuedItems]_vars

\* C28: setSearchQuery, setFilters and clearFilters each leave
\* pagination.currentPage at 1.
C28_QueryChangeResetsPage ==
    lastOp.op \in {"setSearchQuery", "setFilters", "clearFilters"} =>
        productState.pagination.currentPage = 1

\* C29: a stored payload that is valid JSON but not a list is treated like an
\* absent payload: it is never dispatched as the cart's item list, and the
\* application starts.
C29_RestoredCartIsList ==
    /\ ~crashed
    /\ mount.queued => mount.queuedKind = "array"

\* C30: a reload restores the session in memory before it: Authenticated
\* with the same user after a login with or without token, Anonymous after
\* a logout; user data that does not parse gives an Anonymous session and
\* both stored entries removed.
C30_SessionSurvivesReload ==
    [][lastOp'.op = "reload" =>
        IF localStorage.userData.present /\ ~ParseUser(localStorage.userData.text).ok
        THEN /\ appState' = anonymous
             /\ ~localStorage'.authToken.present
             /\ ~localStorage'.userData.present
        ELSE appState' = appState]_vars

====
